---- MODULE Spec2Model ----
(***************************************************************************)
(* Model of codex-rs/core/src/codexignore.rs: CodexIgnore, a wrapper       *)
(* around the `ignore` crate's Gitignore matcher.                           *)
(*                                                                         *)
(* Strings are sequences of one-character strings, and a path is its text, *)
(* so that globbing, component splitting, prefix stripping and the parent  *)
(* walk are computed on the bytes the code hands around and not assumed.   *)
(*                                                                         *)
(* The functions the file calls (std::path; GitignoreBuilder::add,         *)
(* add_line and build, Gitignore::matched_path_or_any_parents,             *)
(* matched_stripped and strip; globset's glob parser, match strategies and *)
(* regex translation) are modelled by what they do on a unix build, over   *)
(* the ASCII characters of CharTable.                                      *)
(***************************************************************************)
EXTENDS Integers, Sequences, FiniteSets

VARIABLES ignoreFile, query, loaded, call

vars == <<ignoreFile, query, loaded, call>>

(***************************************************************************)
(* Bounds                                                                  *)
(***************************************************************************)
\* Most lines in a `.codexignore` file of the model.
MaxRules == 2

(***************************************************************************)
(* Text                                                                    *)
(***************************************************************************)
S_secret_txt == <<"s","e","c","r","e","t",".","t","x","t">>
S_visible_txt == <<"v","i","s","i","b","l","e",".","t","x","t">>
S_important_log == <<"i","m","p","o","r","t","a","n","t",".","l","o","g">>
S_debug_log == <<"d","e","b","u","g",".","l","o","g">>
S_build == <<"b","u","i","l","d">>
S_sub == <<"s","u","b">>
S_proj == <<"p","r","o","j">>
S_project == <<"p","r","o","j","e","c","t">>
CurDir == <<".">>
ParentDir == <<".",".">>
RootDir == <<"/">>

\* The characters of the model in the order of their codes: tab, line feed,
\* form feed, carriage return, then the printable ASCII characters (but the
\* backquote, which a string constant cannot hold).
CharTable ==
    <<"\t", "\n", "\f", "\r", " ", "!", "\"", "#", "$", "%", "&", "'", "(",
      ")", "*", "+", ",", "-", ".", "/", "0", "1", "2", "3", "4", "5", "6",
      "7", "8", "9", ":", ";", "<", "=", ">", "?", "@", "A", "B", "C", "D",
      "E", "F", "G", "H", "I", "J", "K", "L", "M", "N", "O", "P", "Q", "R",
      "S", "T", "U", "V", "W", "X", "Y", "Z", "[", "\\", "]", "^", "_",
      "a", "b", "c", "d", "e", "f", "g", "h", "i", "j", "k", "l", "m",
      "n", "o", "p", "q", "r", "s", "t", "u", "v", "w", "x", "y", "z", "{",
      "|", "}", "~">>

\* The rank of a character; `<=` on ranks is `<=` on chars.
Code(c) == CHOOSE i \in 1..Len(CharTable) : CharTable[i] = c

\* char::is_whitespace, on the characters of the model.
is_whitespace(c) == c \in {" ", "\t", "\n", "\f", "\r"}

StartsWith(s, p) == Len(p) <= Len(s) /\ SubSeq(s, 1, Len(p)) = p

EndsWith(s, p) ==
    Len(p) <= Len(s) /\ SubSeq(s, Len(s) - Len(p) + 1, Len(s)) = p

DropFirst(s, n) == SubSeq(s, n + 1, Len(s))

DropLast(s, n) == SubSeq(s, 1, Len(s) - n)

Contains(s, c) == \E k \in 1..Len(s) : s[k] = c

\* The greatest element of a non-empty set of numbers.
Last(S) == CHOOSE x \in S : \A y \in S : y <= x

\* Segments joined by separators.
RECURSIVE JoinSegs(_)
JoinSegs(segs) ==
    IF segs = <<>> THEN <<>>
    ELSE IF Len(segs) = 1 THEN segs[1]
    ELSE segs[1] \o <<"/">> \o JoinSegs(Tail(segs))

(***************************************************************************)
(* std::path (unix)                                                        *)
(***************************************************************************)
None == [some |-> FALSE]

Some(v) == [some |-> TRUE, val |-> v]

\* Path::is_absolute / has_root: the text starts with a separator.
is_absolute(p) == StartsWith(p, <<"/">>)

\* The maximal runs of non-separator characters of the text from position i
\* on, as [from, to] positions; start is where the run being read began, or
\* 0 between runs.
RECURSIVE Spans(_, _, _)
Spans(p, i, start) ==
    IF i > Len(p)
    THEN (IF start = 0 THEN <<>> ELSE <<[from |-> start, to |-> Len(p)]>>)
    ELSE IF p[i] = "/"
         THEN (IF start = 0 THEN <<>> ELSE <<[from |-> start, to |-> i - 1]>>)
              \o Spans(p, i + 1, 0)
         ELSE Spans(p, i + 1, IF start = 0 THEN i ELSE start)

\* Path::components, as positions in the text: the root of an absolute
\* path, then every run that is not `.`, and a `.` only when it starts a
\* relative path.
ComponentSpans(p) ==
    (IF is_absolute(p) THEN <<[from |-> 1, to |-> 1]>> ELSE <<>>)
    \o SelectSeq(Spans(p, 1, 0),
                 LAMBDA r : SubSeq(p, r.from, r.to) # CurDir \/ r.from = 1)

\* The texts at the positions cs of p.
Texts(p, cs) == [k \in 1..Len(cs) |-> SubSeq(p, cs[k].from, cs[k].to)]

\* Path::components, as texts.
Components(p) == Texts(p, ComponentSpans(p))

\* PartialEq for Path compares components.
PathEq(p, q) == Components(p) = Components(q)

\* Path::join (PathBuf::push): an absolute argument replaces the base;
\* otherwise a separator is added unless the base is empty or ends with one.
join(base, p) ==
    IF is_absolute(p) THEN p
    ELSE IF base # <<>> /\ base[Len(base)] # "/" THEN base \o <<"/">> \o p
    ELSE base \o p

\* Components::as_path after the components bc were taken from the front of
\* p, whose components are at cs: the slice of the text from the next
\* component to the last one, whatever lies between them.
Remainder(p, cs, bc) ==
    IF ~StartsWith(Texts(p, cs), bc) THEN None
    ELSE IF Len(cs) = Len(bc) THEN Some(<<>>)
    ELSE Some(SubSeq(p, cs[Len(bc) + 1].from, cs[Len(cs)].to))

\* Path::strip_prefix: the components of base must start those of p.
strip_prefix(p, base) == Remainder(p, ComponentSpans(p), Components(base))

\* Components::as_path after the last of the components, at cs, was taken
\* from the back of p: the text up to the component before it.
Front(p, cs) ==
    IF cs = <<>> THEN None
    ELSE IF is_absolute(p) /\ Len(cs) = 1 THEN None
    ELSE IF Len(cs) = 1 THEN Some(<<>>)
    ELSE Some(SubSeq(p, 1, cs[Len(cs) - 1].to))

\* Path::parent: None for the empty path and for the root.
parent(p) == Front(p, ComponentSpans(p))

(***************************************************************************)
(* globset, as GitignoreBuilder configures it: literal_separator(true),    *)
(* backslash_escape(true), case sensitive.  allow_unclosed_class is the    *)
(* option of that name: releases of the crate that have it set it for a    *)
(* gitignore glob, older ones fail on a class that is not closed.          *)
(***************************************************************************)
Literal(c) == [t |-> "Literal", c |-> c]

Any == [t |-> "Any"]

ZeroOrMore == [t |-> "ZeroOrMore"]

RecursivePrefix == [t |-> "RecursivePrefix"]

RecursiveSuffix == [t |-> "RecursiveSuffix"]

RecursiveZeroOrMore == [t |-> "RecursiveZeroOrMore"]

\* ranges: pairs <<lo, hi>> of characters.
Class(negated, ranges) ==
    [t |-> "Class", negated |-> negated, ranges |-> ranges]

\* alts: the token sequences of the branches.
Alternates(alts) == [t |-> "Alternates", alts |-> alts]

ParseError == [ok |-> FALSE, unclosed |-> FALSE]

\* ErrorKind::UnclosedClass.
UnclosedClass == [ok |-> FALSE, unclosed |-> TRUE]

ParseOk(toks) == [ok |-> TRUE, tokens |-> toks]

\* The state of the parser after a token: the token sequences being built
\* (the glob's own first, then those of the open alternations) and the
\* position to go on from; found_unclosed_class is set once a class that
\* is not closed was taken back as a literal `[`.
Parsed(branches, next, found_unclosed_class) ==
    [ok |-> TRUE, branches |-> branches, next |-> next,
     found_unclosed_class |-> found_unclosed_class]

\* Parser::push_token: onto the last branch.
Push(branches, toks) == [branches EXCEPT ![Len(branches)] = @ \o toks]

\* Parser::pop_token, then push_token.
Repush(branches, tok) ==
    [branches EXCEPT ![Len(branches)] = Append(DropLast(@, 1), tok)]

\* The character at position i, or "" when there is none.
CharAt(s, i) == IF 1 <= i /\ i <= Len(s) THEN s[i] ELSE ""

CloseRange(ranges, hi) == [ranges EXCEPT ![Len(ranges)] = <<@[1], hi>>]

\* The loop of Parser::parse_class from position i on: `]` and `-` are
\* members when they come first, `a-b` is a range, a trailing `-` is a
\* member.  [ok, next, ranges], or an error for a class that is not closed
\* or a range whose end is below its start.
RECURSIVE ClassLoop(_, _, _, _, _)
ClassLoop(s, i, ranges, first, in_range) ==
    IF i > Len(s) THEN UnclosedClass
    ELSE IF s[i] = "]" /\ ~first
    THEN [ok |-> TRUE, next |-> i + 1,
          ranges |-> IF in_range THEN Append(ranges, <<"-", "-">>)
                     ELSE ranges]
    ELSE IF s[i] = "]"
    THEN ClassLoop(s, i + 1, Append(ranges, <<"]", "]">>), FALSE, in_range)
    ELSE IF s[i] = "-" /\ first
    THEN ClassLoop(s, i + 1, Append(ranges, <<"-", "-">>), FALSE, in_range)
    ELSE IF s[i] = "-" /\ ~in_range
    THEN ClassLoop(s, i + 1, ranges, FALSE, TRUE)
    ELSE IF in_range
    THEN IF Code(s[i]) < Code(ranges[Len(ranges)][1]) THEN ParseError
         ELSE ClassLoop(s, i + 1, CloseRange(ranges, s[i]), FALSE, FALSE)
    ELSE ClassLoop(s, i + 1, Append(ranges, <<s[i], s[i]>>), FALSE, FALSE)

\* The end of Parser::parse_class, i being the position after the `[`: the
\* class is pushed.  For a class that is not closed the parser fails, or,
\* with allow_unclosed_class, goes back to take the `[` as a literal and
\* sets found_unclosed_class.  It is entered with that flag unset.
PushClass(i, branches, negated, body, allow_unclosed_class) ==
    IF body.ok
    THEN Parsed(Push(branches, <<Class(negated, body.ranges)>>), body.next,
                FALSE)
    ELSE IF body.unclosed /\ allow_unclosed_class
    THEN Parsed(Push(branches, <<Literal("[")>>), i, TRUE)
    ELSE ParseError

\* Parser::parse_class, i being the position after the `[`.
ParseClass(s, i, branches, allow_unclosed_class) ==
    IF CharAt(s, i) \in {"!", "^"}
    THEN PushClass(i, branches, TRUE,
                   ClassLoop(s, i + 1, <<>>, TRUE, FALSE),
                   allow_unclosed_class)
    ELSE PushClass(i, branches, FALSE,
                   ClassLoop(s, i, <<>>, TRUE, FALSE),
                   allow_unclosed_class)

\* The end of Parser::parse_star: the token before the `**` is replaced by
\* the recursive token.
Recursive(popped, branches, is_suffix, next, found_unclosed_class) ==
    Parsed(Repush(branches,
                  IF popped.t = "RecursivePrefix" THEN RecursivePrefix
                  ELSE IF popped.t = "RecursiveSuffix" THEN RecursiveSuffix
                  ELSE IF is_suffix THEN RecursiveSuffix
                  ELSE RecursiveZeroOrMore),
           next, found_unclosed_class)

\* Parser::parse_star for `**` at position i, prev being the character
\* before it and peek the one after it ("" for none).
ParseStars(prev, peek, cur, branches, i, found_unclosed_class) ==
    IF cur = <<>>
    THEN IF peek \notin {"", "/"}
         THEN Parsed(Push(branches, <<ZeroOrMore, ZeroOrMore>>), i + 2, found_unclosed_class)
         ELSE Parsed(Push(branches, <<RecursivePrefix>>), i + 3, found_unclosed_class)
    ELSE IF prev # "/" /\ (Len(branches) <= 1 \/ prev \notin {",", "{"})
    THEN Parsed(Push(branches, <<ZeroOrMore, ZeroOrMore>>), i + 2, found_unclosed_class)
    ELSE IF peek = ""
    THEN Recursive(cur[Len(cur)], branches, TRUE, i + 2, found_unclosed_class)
    ELSE IF peek \in {",", "}"} /\ Len(branches) >= 2
    THEN Recursive(cur[Len(cur)], branches, TRUE, i + 2, found_unclosed_class)
    ELSE IF peek = "/"
    THEN Recursive(cur[Len(cur)], branches, FALSE, i + 3, found_unclosed_class)
    ELSE Parsed(Push(branches, <<ZeroOrMore, ZeroOrMore>>), i + 2, found_unclosed_class)

\* Parser::parse_star, i being the position of the `*`.
ParseStar(s, i, branches, found_unclosed_class) ==
    IF CharAt(s, i + 1) # "*"
    THEN Parsed(Push(branches, <<ZeroOrMore>>), i + 1, found_unclosed_class)
    ELSE ParseStars(CharAt(s, i - 1), CharAt(s, i + 2),
                    branches[Len(branches)], branches, i,
                    found_unclosed_class)

\* Parser::pop_alternate: the branches after the first `start` ones become
\* one token of the branch before them.
PopAlternate(branches, start) ==
    Push(SubSeq(branches, 1, start),
         <<Alternates(SubSeq(branches, start + 1, Len(branches)))>>)

\* Parser::parse from position i on.  alternates_stack holds, for each open
\* `{`, the number of branches there were when it opened.
RECURSIVE ParseFrom(_, _, _, _, _, _)
RECURSIVE Resume(_, _, _, _)
ParseFrom(s, i, branches, alternates_stack, allow_unclosed_class, found_unclosed_class) ==
    IF i > Len(s)
    THEN (IF Len(branches) > 1 THEN ParseError ELSE ParseOk(branches[1]))
    ELSE IF s[i] = "?"
    THEN ParseFrom(s, i + 1, Push(branches, <<Any>>), alternates_stack,
                   allow_unclosed_class, found_unclosed_class)
    ELSE IF s[i] = "*"
    THEN Resume(s, ParseStar(s, i, branches, found_unclosed_class),
                alternates_stack, allow_unclosed_class)
    ELSE IF s[i] = "[" /\ ~found_unclosed_class
    THEN Resume(s, ParseClass(s, i + 1, branches, allow_unclosed_class),
                alternates_stack, allow_unclosed_class)
    ELSE IF s[i] = "{"
    THEN ParseFrom(s, i + 1, Append(branches, <<>>),
                   Append(alternates_stack, Len(branches)),
                   allow_unclosed_class, found_unclosed_class)
    ELSE IF s[i] = "}"
    THEN IF alternates_stack = <<>> THEN ParseError
         ELSE ParseFrom(s, i + 1,
                        PopAlternate(branches,
                                     alternates_stack[Len(alternates_stack)]),
                        DropLast(alternates_stack, 1),
                        allow_unclosed_class, found_unclosed_class)
    ELSE IF s[i] = "," /\ alternates_stack # <<>>
    THEN ParseFrom(s, i + 1, Append(branches, <<>>), alternates_stack,
                   allow_unclosed_class, found_unclosed_class)
    ELSE IF s[i] = "\\"
    THEN IF i + 1 > Len(s) THEN ParseError
         ELSE ParseFrom(s, i + 2, Push(branches, <<Literal(s[i + 1])>>),
                        alternates_stack, allow_unclosed_class, found_unclosed_class)
    ELSE ParseFrom(s, i + 1, Push(branches, <<Literal(s[i])>>),
                   alternates_stack, allow_unclosed_class, found_unclosed_class)

\* The parser goes on after a star or a class.
Resume(s, r, alternates_stack, allow_unclosed_class) ==
    IF ~r.ok THEN ParseError
    ELSE ParseFrom(s, r.next, r.branches, alternates_stack,
                   allow_unclosed_class, r.found_unclosed_class)

\* GlobBuilder::build: the tokens of the glob, or an error.
ParseGlob(s, allow_unclosed_class) ==
    ParseFrom(s, 1, <<<<>>>>, <<>>, allow_unclosed_class, FALSE)

\* A character is in one of the ranges of a class.
InRanges(c, ranges) ==
    \E k \in 1..Len(ranges) :
        Code(ranges[k][1]) <= Code(c) /\ Code(c) <= Code(ranges[k][2])

\* The regex Tokens::tokens_to_regex builds, by what it matches: toks match
\* s from position j to its end.  `?` is `[^/]`, `*` is `[^/]*`, a class is
\* a plain class, `**/` is `(?:/?|.*/)`, `/**` is `/.*`, `/**/` is
\* `(?:/|/.*/)`, and `{..}` is the alternation of the branches whose regex
\* text is not empty.
RECURSIVE EmptyRegex(_)
\* The regex text of the tokens is empty: there are none, or each is an
\* alternation that has only branches of empty text.
EmptyRegex(toks) ==
    \A k \in 1..Len(toks) :
        /\ toks[k].t = "Alternates"
        /\ \A a \in 1..Len(toks[k].alts) : EmptyRegex(toks[k].alts[a])

RECURSIVE RegexMatch(_, _, _)
RegexMatch(toks, s, j) ==
    IF toks = <<>> THEN j = Len(s) + 1
    ELSE
    LET tk == Head(toks)
        rest == Tail(toks)
    IN  CASE tk.t = "Literal" ->
                 j <= Len(s) /\ s[j] = tk.c /\ RegexMatch(rest, s, j + 1)
          [] tk.t = "Any" ->
                 j <= Len(s) /\ s[j] # "/" /\ RegexMatch(rest, s, j + 1)
          [] tk.t = "Class" ->
                 /\ j <= Len(s)
                 /\ InRanges(s[j], tk.ranges) # tk.negated
                 /\ RegexMatch(rest, s, j + 1)
          [] tk.t = "ZeroOrMore" ->
                 \/ RegexMatch(rest, s, j)
                 \/ j <= Len(s) /\ s[j] # "/" /\ RegexMatch(toks, s, j + 1)
          [] tk.t = "RecursivePrefix" ->
                 \/ RegexMatch(rest, s, j)
                 \/ \E k \in j..Len(s) :
                        s[k] = "/" /\ RegexMatch(rest, s, k + 1)
          [] tk.t = "RecursiveSuffix" ->
                 /\ j <= Len(s) /\ s[j] = "/"
                 /\ \E k \in (j + 1)..(Len(s) + 1) : RegexMatch(rest, s, k)
          [] tk.t = "RecursiveZeroOrMore" ->
                 /\ j <= Len(s) /\ s[j] = "/"
                 /\ \/ RegexMatch(rest, s, j + 1)
                    \/ \E k \in (j + 1)..Len(s) :
                           s[k] = "/" /\ RegexMatch(rest, s, k + 1)
          [] tk.t = "Alternates" ->
                 LET parts == {a \in 1..Len(tk.alts) :
                                  ~EmptyRegex(tk.alts[a])}
                 IN  IF parts = {} THEN RegexMatch(rest, s, j)
                     ELSE \E a \in parts :
                              RegexMatch(tk.alts[a] \o rest, s, j)

\* pathutil::file_name: the text after the last separator; an empty path
\* and a path that ends with the component `..` have no file name.
file_name(s) ==
    IF s = <<>> THEN None
    ELSE IF ~Contains(s, "/")
    THEN (IF s = ParentDir THEN None ELSE Some(s))
    ELSE IF EndsWith(s, <<"/">> \o ParentDir) THEN None
    ELSE Some(DropFirst(s, Last({k \in 1..Len(s) : s[k] = "/"})))

\* Candidate::new: the basename is the file name, or empty without one.
Basename(s) == IF file_name(s).some THEN file_name(s).val ELSE <<>>

\* pathutil::file_name_ext: the file name from its last `.` on.
file_name_ext(name) ==
    IF ~Contains(name, ".") THEN <<>>
    ELSE DropFirst(name, Last({k \in 1..Len(name) : name[k] = "."}) - 1)

\* Candidate::new: the extension of the basename.
Ext(s) == file_name_ext(Basename(s))

AllLiteral(toks) == \A k \in 1..Len(toks) : toks[k].t = "Literal"

Chars(toks) == [k \in 1..Len(toks) |-> toks[k].c]

\* Glob::basename_literal: `**/` followed by literals without a separator.
basename_literal(toks) ==
    IF /\ Len(toks) >= 2
       /\ toks[1] = RecursivePrefix
       /\ AllLiteral(Tail(toks))
       /\ ~Contains(Chars(Tail(toks)), "/")
    THEN Some(Chars(Tail(toks)))
    ELSE None

\* Glob::literal: literals only, and one at least.
literal(toks) == toks # <<>> /\ AllLiteral(toks)

\* Glob::ext: `**/*.` followed by literals without `.` or a separator.
ext(toks) ==
    IF /\ Len(toks) >= 3
       /\ toks[1] = RecursivePrefix
       /\ toks[2] = ZeroOrMore
       /\ toks[3] = Literal(".")
       /\ AllLiteral(DropFirst(toks, 3))
       /\ ~Contains(Chars(DropFirst(toks, 3)), ".")
       /\ ~Contains(Chars(DropFirst(toks, 3)), "/")
    THEN Some(Chars(DropFirst(toks, 2)))
    ELSE None

\* The loop of Glob::prefix: the tokens are literals, need_sep adds a
\* separator, and the text is not empty.
PrefixRun(toks, need_sep) ==
    IF ~AllLiteral(toks) THEN None
    ELSE IF need_sep THEN Some(Chars(toks) \o <<"/">>)
    ELSE IF toks = <<>> THEN None
    ELSE Some(Chars(toks))

\* Glob::prefix: the literals of the glob, up to a trailing `/**` if there
\* is one; none for a glob that ends with `*`, which stops at a separator.
prefix(toks) ==
    IF toks = <<>> THEN None
    ELSE IF toks[Len(toks)] = ZeroOrMore THEN None
    ELSE IF toks[Len(toks)] = RecursiveSuffix
    THEN PrefixRun(DropLast(toks, 1), TRUE)
    ELSE PrefixRun(toks, FALSE)

\* The loop of Glob::suffix: the tokens are literals and do not start with
\* `*`, and the text is neither empty nor a lone separator.
SuffixRun(toks, lead, component) ==
    IF toks # <<>> /\ toks[1] = ZeroOrMore THEN None
    ELSE IF ~AllLiteral(toks) THEN None
    ELSE IF lead \o Chars(toks) \in {<<>>, <<"/">>} THEN None
    ELSE [some |-> TRUE, val |-> lead \o Chars(toks),
          component |-> component]

\* Glob::suffix: the literals of the glob, after a leading `**/` if there
\* is one; a literal that follows `**/` must follow a whole component.
suffix(toks) ==
    IF toks # <<>> /\ toks[1] = RecursivePrefix
    THEN IF Len(toks) >= 2 /\ toks[2].t = "Literal"
         THEN SuffixRun(Tail(toks), <<"/">>, TRUE)
         ELSE SuffixRun(Tail(toks), <<>>, FALSE)
    ELSE SuffixRun(toks, <<>>, FALSE)

\* The tokens from the last literal `.` on.
FromLastDot(toks) ==
    IF Literal(".") \notin {toks[k] : k \in 1..Len(toks)} THEN <<>>
    ELSE DropFirst(toks,
                   Last({k \in 1..Len(toks) : toks[k] = Literal(".")}) - 1)

\* Glob::required_ext: the glob ends with `.` and literals that hold no
\* separator.
required_ext(toks) ==
    IF /\ FromLastDot(toks) # <<>>
       /\ AllLiteral(FromLastDot(toks))
       /\ ~Contains(Chars(FromLastDot(toks)), "/")
    THEN Some(Chars(FromLastDot(toks)))
    ELSE None

\* MatchStrategy::new: the first strategy the glob allows.
MatchStrategy(toks) ==
    IF basename_literal(toks).some THEN "BasenameLiteral"
    ELSE IF literal(toks) THEN "Literal"
    ELSE IF ext(toks).some THEN "Extension"
    ELSE IF prefix(toks).some THEN "Prefix"
    ELSE IF suffix(toks).some THEN "Suffix"
    ELSE IF required_ext(toks).some THEN "RequiredExtension"
    ELSE "Regex"

\* Tokens::to_regex_with, matched against the whole of s: a glob that is
\* only `**` is `.*`.
Regex(toks, s) ==
    IF toks = <<RecursivePrefix>> THEN TRUE ELSE RegexMatch(toks, s, 1)

\* SuffixStrategy, and the LiteralStrategy entry GlobSet::new adds for a
\* suffix that must follow a whole component: the path ends with the
\* suffix, or is the suffix without its separator.
SuffixMatch(suf, s) ==
    EndsWith(s, suf.val) \/ (suf.component /\ s = Tail(suf.val))

\* GlobSet membership of one glob for one candidate path, by the strategy
\* GlobSet::new files the glob under.
IsMatch(strategy, toks, s) ==
    CASE strategy = "BasenameLiteral" ->
             Basename(s) = basename_literal(toks).val
      [] strategy = "Literal" -> s = Chars(toks)
      [] strategy = "Extension" -> Ext(s) = ext(toks).val
      [] strategy = "Prefix" -> StartsWith(s, prefix(toks).val)
      [] strategy = "Suffix" -> SuffixMatch(suffix(toks), s)
      [] strategy = "RequiredExtension" ->
             Ext(s) = required_ext(toks).val /\ Regex(toks, s)
      [] OTHER -> Regex(toks, s)

GlobIsMatch(toks, s) == IsMatch(MatchStrategy(toks), toks, s)

(***************************************************************************)
(* ignore::gitignore                                                       *)
(***************************************************************************)
\* str::trim_end.
RECURSIVE TrimRight(_)
TrimRight(s) ==
    IF s # <<>> /\ is_whitespace(s[Len(s)]) THEN TrimRight(DropLast(s, 1))
    ELSE s

\* Glob::has_doublestar_prefix.
has_doublestar_prefix(actual) ==
    StartsWith(actual, <<"*","*","/">>) \/ actual = <<"*","*">>

\* What add_line makes of a line: nothing for a comment or an empty line,
\* an error for a glob that does not parse, and the glob otherwise.
Skipped == [kind |-> "skip"]

Failed == [kind |-> "err"]

Added(glob) == [kind |-> "glob", glob |-> glob]

\* add_line, its end: the glob is parsed.
AddParsed(original, is_whitelist, is_only_dir, actual, parsed) ==
    IF ~parsed.ok THEN Failed
    ELSE Added([original |-> original,
                actual |-> actual,
                is_whitelist |-> is_whitelist,
                is_only_dir |-> is_only_dir,
                tokens |-> parsed.tokens])

\* add_line: a pattern that ends with `/**` gets `/*` appended.
AddActual(original, is_whitelist, is_only_dir, actual, allow_unclosed_class) ==
    IF EndsWith(actual, <<"/","*","*">>)
    THEN AddParsed(original, is_whitelist, is_only_dir,
                   actual \o <<"/","*">>,
                   ParseGlob(actual \o <<"/","*">>, allow_unclosed_class))
    ELSE AddParsed(original, is_whitelist, is_only_dir,
                   actual, ParseGlob(actual, allow_unclosed_class))

\* add_line: a pattern without a separator that is not anchored matches at
\* any depth.
AddPattern(original, is_whitelist, is_only_dir, is_abs, line, allow_unclosed_class) ==
    IF ~is_abs /\ ~Contains(line, "/") /\ ~has_doublestar_prefix(line)
    THEN AddActual(original, is_whitelist, is_only_dir,
                   <<"*","*","/">> \o line, allow_unclosed_class)
    ELSE AddActual(original, is_whitelist, is_only_dir, line,
                   allow_unclosed_class)

\* add_line: a trailing `/` makes the glob directory-only and is dropped,
\* with the `\` that may precede it.
AddUnprefixed(original, is_whitelist, is_abs, line, allow_unclosed_class) ==
    IF EndsWith(line, <<"\\","/">>)
    THEN AddPattern(original, is_whitelist, TRUE, is_abs, DropLast(line, 2),
                    allow_unclosed_class)
    ELSE IF EndsWith(line, <<"/">>)
    THEN AddPattern(original, is_whitelist, TRUE, is_abs, DropLast(line, 1),
                    allow_unclosed_class)
    ELSE AddPattern(original, is_whitelist, FALSE, is_abs, line,
                    allow_unclosed_class)

\* add_line: a leading `/` anchors the glob and is dropped.
AddUnmarked(original, is_whitelist, line, allow_unclosed_class) ==
    IF StartsWith(line, <<"/">>)
    THEN AddUnprefixed(original, is_whitelist, TRUE, DropFirst(line, 1),
                       allow_unclosed_class)
    ELSE AddUnprefixed(original, is_whitelist, FALSE, line,
                       allow_unclosed_class)

\* add_line on the trimmed line: `\!` and `\#` stand for `!` and `#`; a
\* leading `!` makes the glob a whitelist and is dropped.
AddTrimmed(line, allow_unclosed_class) ==
    IF line = <<>> THEN Skipped
    ELSE IF StartsWith(line, <<"\\","!">>) \/ StartsWith(line, <<"\\","#">>)
    THEN AddUnprefixed(line, FALSE, FALSE, DropFirst(line, 1),
                       allow_unclosed_class)
    ELSE IF StartsWith(line, <<"!">>)
    THEN AddUnmarked(line, TRUE, DropFirst(line, 1), allow_unclosed_class)
    ELSE AddUnmarked(line, FALSE, line, allow_unclosed_class)

\* GitignoreBuilder::add_line: a comment is skipped; the line is trimmed on
\* the right unless it ends with an escaped space.
add_line(line, allow_unclosed_class) ==
    IF StartsWith(line, <<"#">>) THEN Skipped
    ELSE IF EndsWith(line, <<"\\"," ">>)
    THEN AddTrimmed(line, allow_unclosed_class)
    ELSE AddTrimmed(TrimRight(line), allow_unclosed_class)

\* The globs and the number of errors, one line r before the rest.
Collect(r, rest) ==
    [globs |-> (IF r.kind = "glob" THEN <<r.glob>> ELSE <<>>) \o rest.globs,
     errs |-> (IF r.kind = "err" THEN 1 ELSE 0) + rest.errs]

\* GitignoreBuilder::add over the lines of a file: every line is added, and
\* the errors of the lines that failed are collected.
RECURSIVE AddLines(_, _)
AddLines(lines, allow_unclosed_class) ==
    IF lines = <<>> THEN [globs |-> <<>>, errs |-> 0]
    ELSE Collect(add_line(Head(lines), allow_unclosed_class),
                 AddLines(Tail(lines), allow_unclosed_class))

MatchNone == [m |-> "None"]

MatchIgnore(i) == [m |-> "Ignore", glob |-> i]

MatchWhitelist(i) == [m |-> "Whitelist", glob |-> i]

\* pathutil::is_file_name (unix): the text holds no separator.
is_file_name(p) == ~Contains(p, "/")

\* pathutil::strip_prefix: the text after a prefix it starts with,
\* byte-wise, or the text itself.
strip_bytes(pre, p) == IF StartsWith(p, pre) THEN DropFirst(p, Len(pre)) ELSE p

\* Gitignore::strip after the leading `./`: for a path that is not a bare
\* file name and starts with the text of the matcher's root, that text and
\* one `/` after it are dropped.
StripRoot(gi, p) ==
    IF ~PathEq(gi.root, CurDir) /\ ~is_file_name(p) /\ StartsWith(p, gi.root)
    THEN strip_bytes(<<"/">>, strip_bytes(gi.root, p))
    ELSE p

\* Gitignore::strip.
strip(gi, p) == StripRoot(gi, strip_bytes(<<".","/">>, p))

\* The globs of the set that match the candidate, by index.
Matches(gi, p) ==
    {i \in 1..Len(gi.globs) : GlobIsMatch(gi.globs[i].tokens, p)}

\* The last glob of a set of matching ones.
LastGlob(gi, ok) ==
    IF ok = {} THEN MatchNone
    ELSE IF gi.globs[Last(ok)].is_whitelist THEN MatchWhitelist(Last(ok))
    ELSE MatchIgnore(Last(ok))

\* Gitignore::matched_stripped: the last matching glob that is not
\* directory-only, or any last matching glob when the candidate is a
\* directory.
matched_stripped(gi, p, is_dir) ==
    LastGlob(gi, {i \in Matches(gi, p) : ~gi.globs[i].is_only_dir \/ is_dir})

\* The `while let Some(parent) = path.parent()` loop: the nearest parent
\* with a match decides; every parent is a directory.
RECURSIVE WalkUp(_, _)
RECURSIVE OrParents(_, _, _)
RECURSIVE WalkFrom(_, _)
WalkUp(gi, p) == WalkFrom(gi, parent(p))

\* A match m of the path p, or else that of its parents.
OrParents(m, gi, p) == IF m.m = "None" THEN WalkUp(gi, p) ELSE m

\* One turn of the loop, pr being path.parent().
WalkFrom(gi, pr) ==
    IF ~pr.some THEN MatchNone
    ELSE OrParents(matched_stripped(gi, pr.val, TRUE), gi, pr.val)

\* Gitignore::matched_path_or_any_parents, for the relative paths
\* CodexIgnore hands it (the function asserts that the stripped path has no
\* root): the match of the stripped path, or else that of its parents.
matched_path_or_any_parents(gi, path, is_dir) ==
    IF gi.globs = <<>> THEN MatchNone
    ELSE OrParents(matched_stripped(gi, strip(gi, path), is_dir),
                   gi, strip(gi, path))

(***************************************************************************)
(* CodexIgnore                                                             *)
(***************************************************************************)
Ok(v) == [kind |-> "Ok", val |-> v]

Err == [kind |-> "Err"]

\* The `.codexignore` file on disk: absent; present where its metadata
\* cannot be read (a root that may not be searched, say); present but not
\* to be opened, so that no line of it is read; or its lines.
Missing == [kind |-> "missing"]

Unreachable == [kind |-> "unreachable"]

Unreadable == [kind |-> "unreadable", lines |-> <<>>]

File(lines) == [kind |-> "file", lines |-> lines]

\* path.exists(): the metadata of the file can be read.
exists(file) == file.kind \in {"unreadable", "file"}

\* builder.add(path): the globs of the lines that parse are added to the
\* builder, none when the file cannot be opened; errs counts the failure
\* to open and the lines that do not parse.
builder_add(file, allow_unclosed_class) ==
    IF file.kind = "unreadable" THEN [globs |-> <<>>, errs |-> 1]
    ELSE AddLines(file.lines, allow_unclosed_class)

\* GitignoreBuilder::new(root) keeps the root without a leading `./`.
builder_new(root) == strip_bytes(<<".","/">>, root)

\* load_from_root once path.exists() held.  add_ok is whether the value of
\* builder.add(path) passes the `?` of line 28, build_ok whether that of
\* builder.build() passes the `?` of line 31; both are the crate's to
\* decide.  A clean add always passes.  The `add` of the published crate
\* returns an Option<Error>, for which lines 26-28 do not compile, so what
\* the `add` this file is built against reports of the errors it meets is
\* not known: add_ok is either value when there were errors.
Loaded(root, added, add_ok, build_ok) ==
    IF added.errs > 0 /\ ~add_ok THEN Err
    ELSE IF ~build_ok THEN Err
    ELSE Ok(Some([root |-> root,
                  matcher |-> [root |-> builder_new(root),
                               globs |-> added.globs]]))

\* load_from_root with the missing file reported as an error.
load_from_root_missing_is_err(root, file, allow_unclosed_class, add_ok, build_ok) ==
    IF ~exists(file) THEN Err
    ELSE Loaded(root, builder_add(file, allow_unclosed_class), add_ok,
                build_ok)

load_from_root(root, file, allow_unclosed_class, add_ok, build_ok) ==
    IF ~exists(file) THEN Ok(None)
    ELSE Loaded(root, builder_add(file, allow_unclosed_class), add_ok,
                build_ok)

\* to_absolute without the join of a relative path.
to_absolute_as_given(self, path) == path

to_absolute(self, path) ==
    IF is_absolute(path) THEN path ELSE join(self.root, path)

\* The last component of a remainder, when it has more than one.
LastComponent(st) ==
    IF st.some /\ Len(Components(st.val)) > 1
    THEN Some(Components(st.val)[Len(Components(st.val))])
    ELSE st

\* relative_path keeping only the last component of the remainder.
relative_path_file_name(self, path) ==
    LastComponent(strip_prefix(to_absolute(self, path), self.root))

relative_path(self, path) ==
    strip_prefix(to_absolute(self, path), self.root)

\* is_ignored after strip_prefix: the kind of match of the path relative to
\* the root, `.` standing for the root itself; no match outside the root.
MatchOf(self, st, is_dir) ==
    IF ~st.some THEN "None"
    ELSE matched_path_or_any_parents(
             self.matcher, IF st.val = <<>> THEN CurDir ELSE st.val, is_dir).m

\* is_ignored with Match::Whitelist in the arm of Match::Ignore.
is_ignored_whitelist_as_ignore(self, path, is_dir) ==
    MatchOf(self, strip_prefix(to_absolute(self, path), self.root), is_dir)
        \in {"Ignore", "Whitelist"}

is_ignored(self, path, is_dir) ==
    MatchOf(self, strip_prefix(to_absolute(self, path), self.root), is_dir)
        = "Ignore"

is_file_ignored(self, path) == is_ignored(self, path, FALSE)

\* is_dir_ignored asking about a file.
is_dir_ignored_as_file(self, path) == is_ignored(self, path, FALSE)

is_dir_ignored(self, path) == is_ignored(self, path, TRUE)

root(self) == self.root

(***************************************************************************)
(* Inputs                                                                  *)
(***************************************************************************)
\* The project root: absolute, as the callers pass it.
Root == <<"/">> \o S_proj

L_secret == S_secret_txt
L_build_dir == S_build \o <<"/">>
L_star_log == <<"*",".","l","o","g">>
L_not_important == <<"!">> \o S_important_log
L_star == <<"*">>
L_star_dir == <<"*","/">>
L_anchored_secret == <<"/">> \o S_secret_txt
L_build_all == S_build \o <<"/","*","*">>
L_comment == <<"#"," ","x">>
L_unclosed == <<"[","a","b">>
L_cur_dir == CurDir

\* The lines a `.codexignore` file of the model is made of.
Lines ==
    {L_secret, L_build_dir, L_star_log, L_not_important, L_star, L_star_dir,
     L_anchored_secret, L_build_all, L_comment, L_unclosed, L_cur_dir}

RECURSIVE SeqsUpTo(_, _)
SeqsUpTo(S, n) ==
    IF n = 0 THEN {<<>>}
    ELSE LET shorter == SeqsUpTo(S, n - 1)
         IN  shorter \cup {Append(q, x) : q \in shorter, x \in S}

Files ==
    {Missing, Unreachable, Unreadable}
        \cup {File(ls) : ls \in SeqsUpTo(Lines, MaxRules)}

\* Root-relative texts of the query paths.
RelTexts ==
    {JoinSegs(segs) : segs \in
        {<<>>,
         <<S_secret_txt>>, <<S_visible_txt>>, <<S_important_log>>,
         <<S_debug_log>>,
         <<S_build>>, <<S_build, S_debug_log>>, <<S_build, S_important_log>>,
         <<S_build, S_sub, S_secret_txt>>, <<S_sub, S_build>>,
         <<S_sub, S_build, S_visible_txt>>,
         <<CurDir>>, <<CurDir, S_secret_txt>>, <<ParentDir, S_secret_txt>>,
         <<S_build, ParentDir, S_debug_log>>,
         <<S_build, CurDir, S_debug_log>>}}
    \cup {S_build \o <<"/">>}

\* Absolute paths that do not start with the components of Root.
Outside ==
    {<<"/">> \o JoinSegs(segs) : segs \in
        {<<>>, <<S_secret_txt>>, <<S_project, S_secret_txt>>,
         <<S_project, S_build, S_debug_log>>}}

QueryPaths ==
    RelTexts \cup {Root} \cup {Root \o <<"/">> \o r : r \in RelTexts}
    \cup Outside

(***************************************************************************)
(* State machine                                                           *)
(***************************************************************************)
NotCalled == [kind |-> "NotCalled"]

NoCall == [op |-> "none"]

\* The file on disk and the path the caller queries are the inputs; the
\* matcher is immutable once loaded, so every query of a behaviour is
\* answered by the same rule set.
Init ==
    /\ ignoreFile \in Files
    /\ query \in QueryPaths
    /\ loaded = NotCalled
    /\ call = NoCall

\* CodexIgnore::load_from_root(root).
LoadFromRoot ==
    /\ loaded = NotCalled
    /\ \E allow_unclosed_class \in BOOLEAN, add_ok \in BOOLEAN,
          build_ok \in BOOLEAN :
           loaded' = load_from_root(Root, ignoreFile, allow_unclosed_class,
                                    add_ok, build_ok)
    /\ UNCHANGED <<ignoreFile, query, call>>

HasMatcher == loaded.kind = "Ok" /\ loaded.val.some

Self == loaded.val.val

IsFileIgnored ==
    /\ HasMatcher
    /\ call' = [op |-> "is_file_ignored", result |-> is_file_ignored(Self, query)]
    /\ UNCHANGED <<ignoreFile, query, loaded>>

IsDirIgnored ==
    /\ HasMatcher
    /\ call' = [op |-> "is_dir_ignored", result |-> is_dir_ignored(Self, query)]
    /\ UNCHANGED <<ignoreFile, query, loaded>>

RelativePath ==
    /\ HasMatcher
    /\ call' = [op |-> "relative_path", result |-> relative_path(Self, query)]
    /\ UNCHANGED <<ignoreFile, query, loaded>>

RootAccessor ==
    /\ HasMatcher
    /\ call' = [op |-> "root", result |-> root(Self)]
    /\ UNCHANGED <<ignoreFile, query, loaded>>

Next ==
    \/ LoadFromRoot
    \/ IsFileIgnored
    \/ IsDirIgnored
    \/ RelativePath
    \/ RootAccessor

Spec == Init /\ [][Next]_vars

(***************************************************************************)
(* Vocabulary of the properties                                            *)
(***************************************************************************)
Queried == HasMatcher /\ call.op \in {"is_file_ignored", "is_dir_ignored"}

AsDir == call.op = "is_dir_ignored"

\* The rules of the loaded matcher, in declaration order.
Rules == Self.matcher.globs

\* The query as an absolute text: itself, or the root's text, a separator
\* and the query.
QAbs ==
    IF StartsWith(query, RootDir) THEN query ELSE Root \o <<"/">> \o query

\* The query lies under the root, component by component.
UnderRoot == StartsWith(Components(QAbs), Components(Root))

\* The components of the query after the root's.
QRel == DropFirst(Components(QAbs), Len(Components(Root)))

\* The query names the same path as root/segs.
QueryIs(segs) == Components(QAbs) = Components(Root) \o segs

\* The path the rules are evaluated on: the text of the query from its
\* first component after the root's to its last one, or the
\* current-directory marker for the root itself.
Target ==
    IF QRel = <<>> THEN CurDir
    ELSE LET cs == ComponentSpans(QAbs)
         IN  SubSeq(QAbs, cs[Len(Components(Root)) + 1].from, cs[Len(cs)].to)

\* Rule g matches the path of text c, queried as a directory or not.
RuleMatches(g, c, dir) == GlobIsMatch(g.tokens, c) /\ (~g.is_only_dir \/ dir)

\* The rules that match the queried path itself.
OwnMatches == {i \in 1..Len(Rules) : RuleMatches(Rules[i], Target, AsDir)}

\* The parent directories of a path below the root: the texts that end
\* with one of its components but the last.
Parents(c) ==
    LET cs == ComponentSpans(c)
    IN  {SubSeq(c, 1, cs[n].to) : n \in 1..(Len(cs) - 1)}

\* The rules that match one of its parent directories below the root.
ParentMatches ==
    {i \in 1..Len(Rules) :
        \E d \in Parents(Target) : RuleMatches(Rules[i], d, TRUE)}

\* `..` resolved against the components before it.
RECURSIVE Resolve(_, _)
Resolve(comps, acc) ==
    IF comps = <<>> THEN acc
    ELSE IF Head(comps) = ParentDir
         THEN Resolve(Tail(comps),
                      IF Len(acc) > 1 THEN DropLast(acc, 1) ELSE acc)
         ELSE Resolve(Tail(comps), Append(acc, Head(comps)))

\* The query, once resolved, is the root or a path below it.
ContainedInRoot ==
    StartsWith(Resolve(Tail(Components(QAbs)), <<RootDir>>), Components(Root))

(***************************************************************************)
(* Properties                                                              *)
(***************************************************************************)
AllMatches == OwnMatches \cup ParentMatches

\* No rule matches the root itself, as the empty path or as `.`.
RootUnmatched ==
    \A i \in 1..Len(Rules) :
        /\ ~GlobIsMatch(Rules[i].tokens, <<>>)
        /\ ~GlobIsMatch(Rules[i].tokens, CurDir)

\* C1: for a query under the root, the verdict is that of the last rule, in
\* declaration order, among all rules that match the path or any of its
\* parent directories: ignored iff there is such a rule and it is not
\* negated.  Stated for the rule sets that leave the root itself unmatched
\* (C8 is about the others).
C1_LastRuleAmongAllWins ==
    (Queried /\ UnderRoot /\ RootUnmatched) =>
        call.result = (AllMatches # {} /\ ~Rules[Last(AllMatches)].is_whitelist)

LogThenNot == File(<<L_star_log, L_not_important>>)

NotThenLog == File(<<L_not_important, L_star_log>>)

BothKindsMatch ==
    /\ \E i \in OwnMatches : Rules[i].is_whitelist
    /\ \E i \in OwnMatches : ~Rules[i].is_whitelist

\* C2: with `*.log` then `!important.log`, important.log is not ignored and
\* debug.log is; with the two rules swapped important.log is ignored; and
\* whenever an ignore rule and a negated rule both match a file path, the
\* later of the rules matching it decides.
C2_NegationIsOrderBased ==
    (Queried /\ ~AsDir) =>
        /\ (ignoreFile = LogThenNot /\ QueryIs(<<S_important_log>>))
               => call.result = FALSE
        /\ (ignoreFile = LogThenNot /\ QueryIs(<<S_debug_log>>))
               => call.result = TRUE
        /\ (ignoreFile = NotThenLog /\ QueryIs(<<S_important_log>>))
               => call.result = TRUE
        /\ (UnderRoot /\ BothKindsMatch)
               => call.result = ~Rules[Last(OwnMatches)].is_whitelist

C2_Witness ==
    /\ Queried /\ ~AsDir
    /\ ignoreFile = LogThenNot
    /\ QueryIs(<<S_important_log>>)
    /\ BothKindsMatch
    /\ call.result = FALSE

OnlyRule(line) == HasMatcher /\ Len(Rules) = 1 /\ Rules[1].original = line

\* C3: with the single rule `build/`, the directory root/build is ignored,
\* every file or directory below root/build is ignored, and a file named
\* build is not.
C3_DirectoryOnly ==
    (Queried /\ OnlyRule(L_build_dir)) =>
        /\ (AsDir /\ QueryIs(<<S_build>>)) => call.result = TRUE
        /\ (UnderRoot /\ Len(QRel) > 1 /\ QRel[1] = S_build)
               => call.result = TRUE
        /\ (~AsDir /\ QueryIs(<<S_build>>)) => call.result = FALSE

C3_Witness ==
    /\ Queried /\ OnlyRule(L_build_dir) /\ ~AsDir
    /\ QueryIs(<<S_build, S_sub, S_secret_txt>>)
    /\ call.result = TRUE

\* C4: with the single rule `secret.txt`, root/secret.txt is ignored and
\* root/visible.txt is not; and a query that is outside the root, or is
\* below it and matched by no rule, itself or through a parent directory, is
\* not ignored.
C4_BasicContainment ==
    Queried =>
        /\ (OnlyRule(L_secret) /\ ~AsDir /\ QueryIs(<<S_secret_txt>>))
               => call.result = TRUE
        /\ (OnlyRule(L_secret) /\ ~AsDir /\ QueryIs(<<S_visible_txt>>))
               => call.result = FALSE
        /\ (~UnderRoot \/ (QRel # <<>> /\ AllMatches = {}))
               => call.result = FALSE

\* C5: for a query that is not contained in the root, `..` resolved,
\* relative_path is None and neither query reports it ignored.
C5_OutsideRootIsNeverMatched ==
    (HasMatcher /\ ~ContainedInRoot) =>
        /\ call.op = "relative_path" => ~call.result.some
        /\ Queried => call.result = FALSE

\* C6: without a `.codexignore` file load_from_root is Ok(None), and it is
\* Ok(Some(matcher)) only when the file exists.
C6_AbsenceIsNotAnError ==
    (loaded # NotCalled) =>
        /\ ignoreFile = Missing => loaded = Ok(None)
        /\ HasMatcher => ignoreFile # Missing

C6_Witness == ignoreFile = Missing /\ loaded = Ok(None)

\* A line that is not a comment and opens, with an unescaped `[`, a class it
\* never closes.
Malformed(line) ==
    /\ ~StartsWith(line, <<"#">>)
    /\ \E i \in 1..Len(line) :
          /\ line[i] = "["
          /\ (i = 1 \/ line[i - 1] # "\\")
          /\ \A k \in (i + 1)..Len(line) : line[k] # "]"

\* The file is there, but cannot be read or holds a malformed line.
CannotBeLoaded ==
    \/ ignoreFile \in {Unreachable, Unreadable}
    \/ /\ ignoreFile.kind = "file"
       /\ \E k \in 1..Len(ignoreFile.lines) : Malformed(ignoreFile.lines[k])

\* C7: when the file exists but cannot be read, or one of its lines is a
\* malformed glob, load_from_root is an error: neither a matcher, be it of
\* the lines that parse, nor Ok(None).
C7_LoadFailureIsReported ==
    (loaded # NotCalled /\ CannotBeLoaded) => loaded = Err

\* No rule names the root itself.
NoRootRule ==
    \A i \in 1..Len(Rules) :
        Rules[i].original \notin {<<".">>, <<"/">>, <<"!", ".">>, <<"!", "/">>}

\* C8: a query of the root itself is not ignored, whatever rules that do not
\* name the root the matcher holds, wildcards included.
C8_RootIsNotIgnored ==
    (Queried /\ UnderRoot /\ QRel = <<>> /\ NoRootRule) => call.result = FALSE

StrictlyUnderRoot == is_absolute(query) /\ UnderRoot /\ QRel # <<>>

\* C9: for an absolute path p strictly under the root, relative_path(p) is
\* Some(r), root.join(r) equals p, and relative_path(root.join(r)) is
\* Some(r) again.
C9_RelativePathRoundTrip ==
    (HasMatcher /\ call.op = "relative_path" /\ StrictlyUnderRoot) =>
        /\ call.result.some
        /\ PathEq(join(Root, call.result.val), query)
        /\ relative_path(Self, join(Root, call.result.val))
               = Some(call.result.val)

C9_Witness ==
    /\ HasMatcher /\ call.op = "relative_path"
    /\ query = Root \o <<"/">> \o JoinSegs(<<S_build, S_sub, S_secret_txt>>)
    /\ call.result = Some(JoinSegs(<<S_build, S_sub, S_secret_txt>>))

\* The same answer for a relative query and for the root joined with it.
SameAsJoined ==
    /\ call.op = "relative_path"
           => call.result = relative_path(Self, join(Root, query))
    /\ call.op = "is_file_ignored"
           => call.result = is_file_ignored(Self, join(Root, query))
    /\ call.op = "is_dir_ignored"
           => call.result = is_dir_ignored(Self, join(Root, query))

\* An absolute query is stripped as it is.
AbsoluteAsIs ==
    (call.op = "relative_path" /\ is_absolute(query))
        => call.result = strip_prefix(query, Root)

\* C10 as stated: a relative query r and root.join(r) get the same answers,
\* and relative_path(r) is Some(r), for every relative r.
C10_RelativeIsSomeItself ==
    (HasMatcher /\ call.op # "none") =>
        /\ ~is_absolute(query) => SameAsJoined
        /\ (~is_absolute(query) /\ call.op = "relative_path")
               => call.result.some /\ PathEq(call.result.val, query)
        /\ AbsoluteAsIs

\* The components of a relative path but a `.` that starts it.
WithoutLeadingCurDir(p) ==
    LET c == Components(p)
    IN  IF c # <<>> /\ Head(c) = CurDir THEN Tail(c) ELSE c

\* C10 as amended: a relative query r and root.join(r) get the same
\* answers, and relative_path(r) is Some(r) without the `.` that starts r,
\* which is r itself unless r starts with `.`.
C10_RelativeIsSomeNormalized ==
    (HasMatcher /\ call.op # "none") =>
        /\ ~is_absolute(query) => SameAsJoined
        /\ (~is_absolute(query) /\ call.op = "relative_path") =>
               /\ call.result.some
               /\ Components(call.result.val) = WithoutLeadingCurDir(query)
        /\ AbsoluteAsIs

C10_Witness ==
    /\ HasMatcher /\ call.op = "relative_path"
    /\ query = JoinSegs(<<CurDir, S_secret_txt>>)
    /\ call.result = Some(S_secret_txt)

====
